---------------------------- MODULE Spec2Model ----------------------------
(***************************************************************************)
(* A model of the DNA sequence analysis script (src/main.py and            *)
(* src/utils/sequence_utils.py).                                           *)
(*                                                                         *)
(* A sequence (a Python str) is a tuple of one-character strings.  A       *)
(* Python dict is a tuple of <<key, value>> pairs in insertion order, as   *)
(* dict.items() yields them.                                               *)
(*                                                                         *)
(* Two specifications:                                                     *)
(*   SpecFn  the analysis functions called on their own, on one sequence   *)
(*           drawn from SeqDomain;                                         *)
(*   Spec    the script: validation, the worker pool, the aggregation.     *)
(***************************************************************************)
EXTENDS Integers, Sequences, FiniteSets

VARIABLES
    fn_seq,         \* SpecFn: the sequence the functions are called on
    fn_op,          \* SpecFn: the function called last ("none" before a call)
    fn_arg,         \* SpecFn: its second argument (motif, k, min_length)
    fn_ret,         \* SpecFn: what it returned
    pc,             \* Spec: position of __main__
    sequences,      \* Spec: sequence_data["sequences"]
    num_sequences,  \* Spec: sequence_data["num_sequences"]
    num_cores,      \* Spec: module global num_cores
    validated,      \* Spec: whether the list went through validate_sequence
    data,           \* Spec: the list handed to process_data_parallel (<<>> before)
    taskqueue,      \* Spec: the pool's queue of chunk indices not yet taken
    running,        \* Spec: worker -> <<the index of the chunk it works on>>, or Idle
    number_left,    \* Spec: MapResult._number_left
    map_success,    \* Spec: MapResult._success
    map_value,      \* Spec: MapResult._value
    completed,      \* Spec: the chunk indices in the order the chunks completed
    results,        \* Spec: results of process_data_parallel in __main__ (<<>> before)
    merged,         \* Spec: seq_doc when the loop of the aggregation ends
    seq_statistics  \* Spec: the SequenceStatistics handed to generate_report

fnvars == <<fn_seq, fn_op, fn_arg, fn_ret>>
mainvars == <<pc, sequences, num_sequences, num_cores, validated, data, taskqueue,
              running, number_left, map_success, map_value, completed, results, merged,
              seq_statistics>>
vars == <<fn_seq, fn_op, fn_arg, fn_ret, pc, sequences, num_sequences, num_cores,
          validated, data, taskqueue, running, number_left, map_success, map_value,
          completed, results, merged, seq_statistics>>

---------------------------------------------------------------------------
(* Bounds of the model *)

\* Every sequence over the four bases up to this length is in SeqDomain.
MaxLen == 6
\* Palindrome minimum lengths 1..MaxMinLen are tried besides the script's 20, and
\* LongSeqs holds sequences of 20 to 20 + MaxMinLen bases (one base more with a
\* leading G).
MaxMinLen == 3
\* Input lists hold at most this many sequences.
MaxSeqs == 2
\* os.cpu_count() is drawn from 1..MaxCpu.
MaxCpu == 4

---------------------------------------------------------------------------
(* Python values and built-ins *)

\* Python's None, and the KeyError a dict lookup raises, as records: TLC compares
\* a record with any other record
None == [none |-> TRUE]
KeyError == [exception |-> "KeyError"]
\* A worker with no chunk; <<i>> is a worker on chunk i
Idle == <<>>

Bases == {"A", "T", "G", "C"}
Whitespace == {" "}

Min(a, b) == IF a < b THEN a ELSE b
Max(a, b) == IF a < b THEN b ELSE a

SetMax(S) == CHOOSE x \in S : \A y \in S : y <= x

Range(s) == {s[i] : i \in 1..Len(s)}

\* s[start:stop] for start >= 0 and any stop; indices are 0-based as in Python.
PySlice(s, start, stop) ==
    LET n == Len(s)
        hi == IF stop < 0 THEN Max(0, n + stop) ELSE Min(stop, n)
        lo == Min(start, n)
    IN SubSeq(s, lo + 1, hi)

\* str.lower() on one character
LowerChar(c) ==
    CASE c = "A" -> "a"
      [] c = "T" -> "t"
      [] c = "G" -> "g"
      [] c = "C" -> "c"
      [] c = "N" -> "n"
      [] OTHER -> c

lower(s) == [i \in 1..Len(s) |-> LowerChar(s[i])]

RECURSIVE lstrip(_)
lstrip(s) == IF s # <<>> /\ Head(s) \in Whitespace THEN lstrip(Tail(s)) ELSE s

RECURSIVE rstrip(_)
rstrip(s) ==
    IF s # <<>> /\ s[Len(s)] \in Whitespace THEN rstrip(SubSeq(s, 1, Len(s) - 1)) ELSE s

strip(s) == rstrip(lstrip(s))

reversed(s) == [i \in 1..Len(s) |-> s[Len(s) + 1 - i]]

\* dict lookups on a tuple of <<key, value>> pairs
Keys(d) == {d[i][1] : i \in 1..Len(d)}
IndexOf(d, key) == CHOOSE i \in 1..Len(d) : d[i][1] = key
Get(d, key, default) == IF key \in Keys(d) THEN d[IndexOf(d, key)][2] ELSE default

\* d[key] += n on a defaultdict(int) or Counter: a new key goes to the end
AddCount(d, key, n) ==
    IF key \in Keys(d)
    THEN [d EXCEPT ![IndexOf(d, key)] = <<key, @[2] + n>>]
    ELSE Append(d, <<key, n>>)

\* A mutation of InsertByValue: an entry is put before the entries of equal value.
InsertByValueUnstable(acc, item) ==
    LET before == {i \in 1..Len(acc) : acc[i][2] > item[2]}
        p == Cardinality(before)
    IN SubSeq(acc, 1, p) \o <<item>> \o SubSeq(acc, p + 1, Len(acc))

\* One step of the stable descending sort: item goes after every entry whose
\* value is at least its own (acc is sorted by value, descending).
InsertByValue(acc, item) ==
    LET before == {i \in 1..Len(acc) : acc[i][2] >= item[2]}
        p == Cardinality(before)
    IN SubSeq(acc, 1, p) \o <<item>> \o SubSeq(acc, p + 1, Len(acc))

RECURSIVE SortFrom(_, _, _)
SortFrom(items, i, acc) ==
    IF i > Len(items) THEN acc ELSE SortFrom(items, i + 1, InsertByValue(acc, items[i]))

\* sorted(items, key=lambda item: item[1], reverse=True)
sorted_by_value_reverse(items) == SortFrom(items, 1, <<>>)

---------------------------------------------------------------------------
(* src/utils/sequence_utils.py *)

GC_ISLAND_MOTIF == <<"C", "G">>
AT_RUN_MOTIF == <<"A", "T">>
MIN_PALINDROME_LENGTH == 20
TOP_LIMIT == 5

find_top_values(results_, limit) == PySlice(sorted_by_value_reverse(results_), 0, limit)

RECURSIVE find_motif_loop(_, _, _, _, _, _)
find_motif_loop(sequence, motif, i, pos_len, longest, seen) ==
    LET step == Len(motif) IN
    IF i >= pos_len
    THEN IF Cardinality(seen) > 0 THEN SetMax(seen) ELSE 0
    ELSE IF PySlice(sequence, i, i + step) = motif
         THEN find_motif_loop(sequence, motif, i + step, pos_len, longest + step, seen)
         ELSE find_motif_loop(sequence, motif, i + step, pos_len, 0, seen \cup {longest})

find_motif(sequence, motif) ==
    LET positions == {i \in 0..(Len(sequence) - 2) :
                         PySlice(sequence, i, i + Len(motif)) = motif}
        pos_len == Cardinality(positions)
    IN find_motif_loop(sequence, motif, 0, pos_len, 0, {})

complement(base) ==
    CASE base = "A" -> "T"
      [] base = "T" -> "A"
      [] base = "C" -> "G"
      [] base = "G" -> "C"

\* complement[base] raises KeyError on any other character
RaisesKeyError(sequence) == \E i \in 1..Len(sequence) : sequence[i] \notin Bases

reverse_complement(sequence) ==
    LET r == reversed(sequence) IN [i \in 1..Len(r) |-> complement(r[i])]

EmptyPalindrome == [palindrome_seq |-> <<>>, palindrome_length |-> 0]

\* A mutation of palindrome_step: a match of equal length replaces the one kept.
palindrome_step_overwrite(sequence, rev_complement, length, i, longest) ==
    LET seq_length == Len(sequence)
        subseq == PySlice(sequence, i, i + length)
        rev_subseq == PySlice(rev_complement, seq_length - i - length, seq_length - i)
    IN IF subseq = rev_subseq /\ Len(subseq) >= longest.palindrome_length
       THEN [palindrome_seq |-> subseq, palindrome_length |-> Len(subseq)]
       ELSE longest

\* The body of the inner loop
palindrome_step(sequence, rev_complement, length, i, longest) ==
    LET seq_length == Len(sequence)
        subseq == PySlice(sequence, i, i + length)
        rev_subseq == PySlice(rev_complement, seq_length - i - length, seq_length - i)
    IN IF subseq = rev_subseq /\ Len(subseq) > longest.palindrome_length
       THEN [palindrome_seq |-> subseq, palindrome_length |-> Len(subseq)]
       ELSE longest

\* for i in range(seq_length - length + 1), from i on.  (TLC evaluates an
\* argument when it is first read: the test on next makes that happen at each
\* iteration, not at the end of the loop.)
RECURSIVE palindrome_inner(_, _, _, _, _)
palindrome_inner(sequence, rev_complement, length, i, longest) ==
    IF i >= Len(sequence) - length + 1 THEN longest
    ELSE LET next == palindrome_step(sequence, rev_complement, length, i, longest)
         IN IF next.palindrome_length >= 0
            THEN palindrome_inner(sequence, rev_complement, length, i + 1, next)
            ELSE next

\* for length in range(min_length, seq_length + 1), from length on
RECURSIVE palindrome_outer(_, _, _, _)
palindrome_outer(sequence, rev_complement, length, longest) ==
    IF length >= Len(sequence) + 1 THEN longest
    ELSE LET next == palindrome_inner(sequence, rev_complement, length, 0, longest)
         IN IF next.palindrome_length >= 0
            THEN palindrome_outer(sequence, rev_complement, length + 1, next)
            ELSE next

\* KeyError when reverse_complement raises it
find_longest_dna_palindrome(sequence, min_length) ==
    IF RaisesKeyError(sequence) THEN KeyError
    ELSE palindrome_outer(sequence, reverse_complement(sequence), min_length,
                          EmptyPalindrome)

RECURSIVE CountChars(_, _, _)
CountChars(s, i, counts) ==
    IF i > Len(s) THEN counts ELSE CountChars(s, i + 1, AddCount(counts, s[i], 1))

\* defaultdict(int, Counter(sequence.lower().strip()))
count_nucleotides(sequence) == CountChars(strip(lower(sequence)), 1, <<>>)

RECURSIVE k_mer_loop(_, _, _, _, _)
k_mer_loop(sequence, number_nucleotides, i, n_iter, oligo_counts) ==
    IF i >= n_iter THEN oligo_counts
    ELSE k_mer_loop(sequence, number_nucleotides, i + 1, n_iter,
                    AddCount(oligo_counts,
                             PySlice(sequence, i, i + number_nucleotides), 1))

\* oligo_counts when the loop of count_k_mers ends (<<>> on the early return)
oligo_counts_of(sequence_, number_nucleotides) ==
    LET sequence == strip(lower(sequence_))
        sequence_length == Len(sequence)
        scanned == PySlice(sequence, 0, -(number_nucleotides - 1))
    IN IF sequence_length < number_nucleotides THEN <<>>
       ELSE k_mer_loop(sequence, number_nucleotides, 0, Len(scanned), <<>>)

\* dict(sorted(oligo_counts.items(), ...)[:5]), or {} on the early return
count_k_mers(sequence, number_nucleotides) ==
    PySlice(sorted_by_value_reverse(oligo_counts_of(sequence, number_nucleotides)),
            0, TOP_LIMIT)

RECURSIVE update_from(_, _, _)
update_from(current_counts, new_counts, i) ==
    IF i > Len(new_counts) THEN current_counts
    ELSE update_from(AddCount(current_counts, new_counts[i][1], new_counts[i][2]),
                     new_counts, i + 1)

\* A mutation of update_k_mer_counts: dict.update, which overwrites a count.
update_k_mer_counts_overwrite(current_counts, new_counts) ==
    LET fresh == SelectSeq(new_counts, LAMBDA e : e[1] \notin Keys(current_counts))
    IN [i \in 1..Len(current_counts) |->
           <<current_counts[i][1],
             Get(new_counts, current_counts[i][1], current_counts[i][2])>>] \o fresh

\* Counter(current_counts).update(new_counts): counts are added, new keys appended
update_k_mer_counts(current_counts, new_counts) ==
    update_from(current_counts, new_counts, 1)

\* What validate_sequence returns: "True", "False" or "None" (the fall-through).
\* seen_list is created by each call.
validate_sequence(sequence, letter_list, min_length) ==
    LET seen_list == <<>> IN
    IF Len(sequence) > min_length /\ \A i \in 1..Len(sequence) : sequence[i] \in letter_list
    THEN IF sequence \notin Range(seen_list) THEN "True" ELSE "None"
    ELSE "False"

\* The DNASequence built from a sequence whose analysis did not raise
create_dna_sequence_record(id, nucleotide_counts, sequence, min_length, k_mers) ==
    LET longest_palindrome == find_longest_dna_palindrome(sequence, min_length)
        cpg_islands == find_motif(sequence, GC_ISLAND_MOTIF)
        at_runs == find_motif(sequence, AT_RUN_MOTIF)
    IN IF longest_palindrome = KeyError THEN KeyError
       ELSE [id |-> id,
             adenine_count |-> Get(nucleotide_counts, "a", 0),
             thymine_count |-> Get(nucleotide_counts, "t", 0),
             guanine_count |-> Get(nucleotide_counts, "g", 0),
             cytosine_count |-> Get(nucleotide_counts, "c", 0),
             palindrome |-> longest_palindrome,
             motifs |-> [cpg_islands |-> cpg_islands, tata_boxes |-> at_runs],
             k_mers |-> k_mers]

---------------------------------------------------------------------------
(* The sequences the model runs on *)

\* unit repeated and cut to length n
Cycle(unit, n) == [i \in 1..n |-> unit[((i - 1) % Len(unit)) + 1]]

ShortSeqs == UNION {[1..n -> Bases] : n \in 0..MaxLen}

\* Eleven bases with many distinct k-mers; RichHalf \o reverse_complement(RichHalf)
\* is its own reverse complement.
RichHalf == <<"A", "A", "C", "G", "T", "C", "A", "G", "G", "T", "A">>

Units == {<<"A", "A", "T", "T">>, <<"A", "T">>, <<"C", "G">>,
          RichHalf \o reverse_complement(RichHalf)}

\* Sequences around the script's minimum palindrome length
LongSeqs ==
    {pre \o Cycle(u, n) : pre \in {<<>>, <<"G">>}, u \in Units,
                          n \in MIN_PALINDROME_LENGTH..(MIN_PALINDROME_LENGTH + MaxMinLen)}

\* The sequences an input list is made of: too short (length 2), the shortest
\* accepted (length 3), one with a character outside the alphabet, one whose
\* longest palindrome has exactly the minimum length, and two with a longer one.
PoolSeqs ==
    {<<"A", "T">>,
     <<"C", "G", "A">>,
     <<"A", "a", "T", "T">>,
     Cycle(<<"A", "A", "T", "T">>, MIN_PALINDROME_LENGTH),
     RichHalf \o reverse_complement(RichHalf),
     <<"G">> \o Cycle(<<"C", "G">>, MIN_PALINDROME_LENGTH + 2) \o <<"A", "T">>}

SeqDomain == ShortSeqs \cup LongSeqs \cup PoolSeqs \cup {Cycle(<<"C", "G">>, 6)}

Motifs == {GC_ISLAND_MOTIF, AT_RUN_MOTIF}
KValues == 1..5
MinLengths == (1..MaxMinLen) \cup {MIN_PALINDROME_LENGTH}

---------------------------------------------------------------------------
(* src/main.py *)

NUCLEOTIDE_LIST == {"A", "T", "G", "C"}
PALINDROME_MIN_LENGTH == 20
INDEX == 0
VALIDATE_MIN_LENGTH == 2

initialise_sequence_statistics ==
    [total_adenine_count |-> 0,
     total_thymine_count |-> 0,
     total_guanine_count |-> 0,
     total_cytosine_count |-> 0,
     total_sequences_count |-> 0,
     invalid_sequences_count |-> 0,
     total_k_mer_count_2 |-> <<>>,
     total_k_mer_count_3 |-> <<>>,
     total_k_mer_count_4 |-> <<>>,
     total_k_mer_count_5 |-> <<>>,
     palindromes |-> <<>>,
     dna_sequences |-> <<>>]

\* The DNASequence of one sequence, or KeyError when the analysis raises
process_data(sequence) ==
    LET nucleotide_counts == count_nucleotides(sequence)
        k_mers == [k_mer_n2_count |-> count_k_mers(sequence, 2),
                   k_mer_n3_count |-> count_k_mers(sequence, 3),
                   k_mer_n4_count |-> count_k_mers(sequence, 4),
                   k_mer_n5_count |-> count_k_mers(sequence, 5)]
    IN create_dna_sequence_record(INDEX + 1, nucleotide_counts, sequence,
                                  PALINDROME_MIN_LENGTH, k_mers)

\* process_data on the sequences an input list is made of (a table: TLC
\* evaluates it once)
Analysed == [s \in PoolSeqs |-> process_data(s)]

\* A mutation of cleaned_sequence_data: a sequence seen before is dropped, as
\* clean_sequence_data does.
cleaned_sequence_data_dedup(seqs) ==
    LET valid == SelectSeq(seqs, LAMBDA seq :
                    validate_sequence(seq, NUCLEOTIDE_LIST, VALIDATE_MIN_LENGTH) = "True")
        firsts == {i \in 1..Len(valid) : \A j \in 1..(i - 1) : valid[j] # valid[i]}
        nth(k) == CHOOSE i \in firsts : Cardinality({j \in firsts : j < i}) = k - 1
    IN [k \in 1..Cardinality(firsts) |-> valid[nth(k)]]

\* [seq for seq in sequence_data["sequences"] if validate(sequence=seq)]:
\* only True is truthy
cleaned_sequence_data(seqs) ==
    SelectSeq(seqs, LAMBDA seq :
        validate_sequence(seq, NUCLEOTIDE_LIST, VALIDATE_MIN_LENGTH) = "True")

\* A mutation of fold_item: the palindrome is collected from the minimum
\* length on (>= for >).
fold_item_at_least(seq_doc, item) ==
    [seq_doc EXCEPT
        !.total_adenine_count = @ + item.adenine_count,
        !.total_thymine_count = @ + item.thymine_count,
        !.total_guanine_count = @ + item.guanine_count,
        !.total_cytosine_count = @ + item.cytosine_count,
        !.total_k_mer_count_2 = update_k_mer_counts(@, item.k_mers.k_mer_n2_count),
        !.total_k_mer_count_3 = update_k_mer_counts(@, item.k_mers.k_mer_n3_count),
        !.total_k_mer_count_4 = update_k_mer_counts(@, item.k_mers.k_mer_n4_count),
        !.total_k_mer_count_5 = update_k_mer_counts(@, item.k_mers.k_mer_n5_count),
        !.palindromes = IF item.palindrome.palindrome_length >= PALINDROME_MIN_LENGTH
                        THEN Append(@, item.palindrome) ELSE @,
        !.dna_sequences = Append(@, item)]

\* A mutation of fold_item: the thymine total is assigned, not added to.
fold_item_assign(seq_doc, item) ==
    [seq_doc EXCEPT
        !.total_adenine_count = @ + item.adenine_count,
        !.total_thymine_count = item.thymine_count,
        !.total_guanine_count = @ + item.guanine_count,
        !.total_cytosine_count = @ + item.cytosine_count,
        !.total_k_mer_count_2 = update_k_mer_counts(@, item.k_mers.k_mer_n2_count),
        !.total_k_mer_count_3 = update_k_mer_counts(@, item.k_mers.k_mer_n3_count),
        !.total_k_mer_count_4 = update_k_mer_counts(@, item.k_mers.k_mer_n4_count),
        !.total_k_mer_count_5 = update_k_mer_counts(@, item.k_mers.k_mer_n5_count),
        !.palindromes = IF item.palindrome.palindrome_length > PALINDROME_MIN_LENGTH
                        THEN Append(@, item.palindrome) ELSE @,
        !.dna_sequences = Append(@, item)]

\* The body of the loop of calculate_dna_sequence_statistics
fold_item(seq_doc, item) ==
    [seq_doc EXCEPT
        !.total_adenine_count = @ + item.adenine_count,
        !.total_thymine_count = @ + item.thymine_count,
        !.total_guanine_count = @ + item.guanine_count,
        !.total_cytosine_count = @ + item.cytosine_count,
        !.total_k_mer_count_2 = update_k_mer_counts(@, item.k_mers.k_mer_n2_count),
        !.total_k_mer_count_3 = update_k_mer_counts(@, item.k_mers.k_mer_n3_count),
        !.total_k_mer_count_4 = update_k_mer_counts(@, item.k_mers.k_mer_n4_count),
        !.total_k_mer_count_5 = update_k_mer_counts(@, item.k_mers.k_mer_n5_count),
        !.palindromes = IF item.palindrome.palindrome_length > PALINDROME_MIN_LENGTH
                        THEN Append(@, item.palindrome) ELSE @,
        !.dna_sequences = Append(@, item)]

RECURSIVE fold_from(_, _, _)
fold_from(seq_doc, items, i) ==
    IF i > Len(items) THEN seq_doc
    ELSE fold_from(fold_item(seq_doc, items[i]), items, i + 1)

\* seq_doc when the loop of calculate_dna_sequence_statistics ends
folded_statistics(items, total_count, invalid_count) ==
    fold_from([initialise_sequence_statistics EXCEPT
                  !.total_sequences_count = total_count,
                  !.invalid_sequences_count = invalid_count],
              items, 1)

calculate_dna_sequence_statistics(items, total_count, invalid_count) ==
    [folded_statistics(items, total_count, invalid_count) EXCEPT
        !.total_k_mer_count_2 = find_top_values(@, TOP_LIMIT),
        !.total_k_mer_count_3 = find_top_values(@, TOP_LIMIT),
        !.total_k_mer_count_4 = find_top_values(@, TOP_LIMIT),
        !.total_k_mer_count_5 = find_top_values(@, TOP_LIMIT)]

(* process_data_parallel: Pool(processes=num_cores).map(process_data, data) *)

\* pool.map's chunksize for a list of length n on a pool of the given size
map_chunksize(n, processes) ==
    LET chunksize == n \div (processes * 4)
        extra == n % (processes * 4)
    IN IF n = 0 THEN 0 ELSE IF extra # 0 THEN chunksize + 1 ELSE chunksize

\* MapResult.__init__: the number of chunks
map_number_left(n, chunksize) ==
    IF chunksize <= 0 THEN 0
    ELSE (n \div chunksize) + (IF n % chunksize # 0 THEN 1 ELSE 0)

\* The items of chunk i (0-based)
chunk_items(items, chunksize, i) == PySlice(items, i * chunksize, (i + 1) * chunksize)

\* What a worker sends back for a chunk: <<success, result>>, the records or
\* the exception of the first item that raised
chunk_result(chunk) ==
    LET recs == [j \in 1..Len(chunk) |-> Analysed[chunk[j]]] IN
    IF \E j \in 1..Len(chunk) : recs[j] = KeyError
    THEN <<FALSE, KeyError>>
    ELSE <<TRUE, recs>>

\* A mutation of map_result_set: a chunk's records are stored in the order the
\* chunks complete, not at the chunk's own index.
map_result_set_arrival(st, chunksize, i, success_result) ==
    LET success == success_result[1]
        result == success_result[2]
        left == st.number_left - 1
    IN IF success /\ st.success
       THEN [number_left |-> left, success |-> TRUE,
             value |-> SelectSeq(st.value, LAMBDA v : v # None) \o result \o
                       [j \in 1..(Len(st.value) - Len(result)
                                  - Len(SelectSeq(st.value, LAMBDA v : v # None))) |-> None]]
       ELSE IF ~success /\ st.success
            THEN [number_left |-> left, success |-> FALSE, value |-> result]
            ELSE [st EXCEPT !.number_left = left]

\* A mutation of map_result_set: a failed chunk is dropped without a signal.
map_result_set_swallow(st, chunksize, i, success_result) ==
    LET success == success_result[1]
        result == success_result[2]
        left == st.number_left - 1
    IN IF success
       THEN [number_left |-> left, success |-> TRUE,
             value |-> SubSeq(st.value, 1, i * chunksize) \o result \o
                       SubSeq(st.value, (i + 1) * chunksize + 1, Len(st.value))]
       ELSE [number_left |-> left, success |-> TRUE,
             value |-> SubSeq(st.value, 1, i * chunksize) \o
                       SubSeq(st.value, (i + 1) * chunksize + 1, Len(st.value))]

\* MapResult._set(i, success_result) on st = [number_left, success, value]
map_result_set(st, chunksize, i, success_result) ==
    LET success == success_result[1]
        result == success_result[2]
        left == st.number_left - 1
    IN IF success /\ st.success
       THEN [number_left |-> left, success |-> TRUE,
             value |-> SubSeq(st.value, 1, i * chunksize) \o result \o
                       SubSeq(st.value, (i + 1) * chunksize + 1, Len(st.value))]
       ELSE IF ~success /\ st.success
            THEN [number_left |-> left, success |-> FALSE, value |-> result]
            ELSE [st EXCEPT !.number_left = left]

---------------------------------------------------------------------------
(* Spec: the script *)

Workers == 1..num_cores

SeqLists == UNION {[1..n -> PoolSeqs] : n \in 0..MaxSeqs}

FnIdle ==
    /\ fn_seq = <<>>
    /\ fn_op = "off"
    /\ fn_arg = None
    /\ fn_ret = None

\* load_sequences_file: any list of sequences with any declared count;
\* num_cores = os.cpu_count() // 2
Init ==
    /\ FnIdle
    /\ pc = "start"
    /\ sequences \in SeqLists
    /\ num_sequences \in 0..MaxSeqs
    /\ \E cpu_count \in 1..MaxCpu : num_cores = cpu_count \div 2
    /\ validated = FALSE
    /\ data = <<>>
    /\ taskqueue = <<>>
    /\ running = <<>>
    /\ number_left = 0
    /\ map_success = TRUE
    /\ map_value = <<>>
    /\ completed = <<>>
    /\ results = <<>>
    /\ merged = None
    /\ seq_statistics = None

\* __main__: the list is filtered by validate_sequence
CleanSequences ==
    /\ pc = "start"
    /\ data' = cleaned_sequence_data(sequences)
    /\ validated' = TRUE
    /\ pc' = "dispatch"
    /\ UNCHANGED <<fnvars, sequences, num_sequences, num_cores, taskqueue, running,
                   number_left, map_success, map_value, completed, results, merged,
                   seq_statistics>>

\* A caller that hands process_data_parallel a list it did not validate
SkipValidation ==
    /\ pc = "start"
    /\ data' = sequences
    /\ pc' = "dispatch"
    /\ UNCHANGED <<fnvars, sequences, num_sequences, num_cores, validated, taskqueue,
                   running, number_left, map_success, map_value, completed, results,
                   merged, seq_statistics>>

\* Pool(processes=num_cores) raises ValueError when num_cores < 1
PoolRaise ==
    /\ pc = "dispatch"
    /\ num_cores < 1
    /\ pc' = "raised"
    /\ UNCHANGED <<fnvars, sequences, num_sequences, num_cores, validated, data,
                   taskqueue, running, number_left, map_success, map_value, completed,
                   results, merged, seq_statistics>>

\* Pool(processes=num_cores) and the start of pool.map: the chunks are queued
PoolMap ==
    /\ pc = "dispatch"
    /\ num_cores >= 1
    /\ LET chunksize == map_chunksize(Len(data), num_cores)
           n_chunks == map_number_left(Len(data), chunksize)
       IN /\ taskqueue' = [j \in 1..n_chunks |-> j - 1]
          /\ number_left' = n_chunks
    /\ running' = [w \in Workers |-> Idle]
    /\ map_success' = TRUE
    /\ map_value' = [j \in 1..Len(data) |-> None]
    /\ pc' = "map"
    /\ completed' = <<>>
    /\ UNCHANGED <<fnvars, sequences, num_sequences, num_cores, validated, data, results,
                   merged, seq_statistics>>

\* An idle worker takes the next chunk from the queue
WorkerTake(w) ==
    /\ pc = "map"
    /\ running[w] = Idle
    /\ taskqueue # <<>>
    /\ running' = [running EXCEPT ![w] = <<Head(taskqueue)>>]
    /\ taskqueue' = Tail(taskqueue)
    /\ UNCHANGED <<fnvars, pc, sequences, num_sequences, num_cores, validated, data,
                   number_left, map_success, map_value, completed, results, merged,
                   seq_statistics>>

\* A worker completes its chunk and the result handler stores what it sent
WorkerDone(w) ==
    /\ pc = "map"
    /\ running[w] # Idle
    /\ LET chunksize == map_chunksize(Len(data), num_cores)
           i == running[w][1]
           st == map_result_set([number_left |-> number_left, success |-> map_success,
                                 value |-> map_value],
                                chunksize, i,
                                chunk_result(chunk_items(data, chunksize, i)))
       IN /\ number_left' = st.number_left
          /\ map_success' = st.success
          /\ map_value' = st.value
    /\ completed' = Append(completed, running[w][1])
    /\ running' = [running EXCEPT ![w] = Idle]
    /\ UNCHANGED <<fnvars, pc, sequences, num_sequences, num_cores, validated, data,
                   taskqueue, results, merged, seq_statistics>>

\* pool.map returns the list once every chunk is done and none failed
MapReturn ==
    /\ pc = "map"
    /\ number_left = 0
    /\ map_success
    /\ results' = map_value
    /\ pc' = "aggregate"
    /\ UNCHANGED <<fnvars, sequences, num_sequences, num_cores, validated, data,
                   taskqueue, running, number_left, map_success, map_value, completed,
                   merged, seq_statistics>>

\* pool.map raises the first exception stored once every chunk is done
MapRaise ==
    /\ pc = "map"
    /\ number_left = 0
    /\ ~map_success
    /\ pc' = "raised"
    /\ UNCHANGED <<fnvars, sequences, num_sequences, num_cores, validated, data,
                   taskqueue, running, number_left, map_success, map_value, completed,
                   results, merged, seq_statistics>>

\* A mutation of invalid_count_of: the subtraction the other way round.
invalid_count_of_swapped(total_count, cleaned) == Len(cleaned) - total_count

\* invalid_count = total_count - len(cleaned_sequence_data)
invalid_count_of(total_count, cleaned) == total_count - Len(cleaned)

\* __main__: total_count, invalid_count and calculate_dna_sequence_statistics
Aggregate ==
    /\ pc = "aggregate"
    /\ LET total_count == num_sequences
           invalid_count == invalid_count_of(total_count, data)
       IN /\ merged' = folded_statistics(results, total_count, invalid_count)
          /\ seq_statistics' =
                calculate_dna_sequence_statistics(results, total_count, invalid_count)
    /\ pc' = "done"
    /\ UNCHANGED <<fnvars, sequences, num_sequences, num_cores, validated, data,
                   taskqueue, running, number_left, map_success, map_value, completed,
                   results>>

Next ==
    \/ CleanSequences
    \/ SkipValidation
    \/ PoolRaise
    \/ PoolMap
    \/ \E w \in Workers : WorkerTake(w)
    \/ \E w \in Workers : WorkerDone(w)
    \/ MapReturn
    \/ MapRaise
    \/ Aggregate

Spec == Init /\ [][Next]_vars

---------------------------------------------------------------------------
(* SpecFn: one analysis function called on one sequence *)

MainIdle ==
    /\ pc = "off"
    /\ sequences = <<>>
    /\ num_sequences = 0
    /\ num_cores = 0
    /\ validated = FALSE
    /\ data = <<>>
    /\ taskqueue = <<>>
    /\ running = <<>>
    /\ number_left = 0
    /\ map_success = TRUE
    /\ map_value = <<>>
    /\ completed = <<>>
    /\ results = <<>>
    /\ merged = None
    /\ seq_statistics = None

InitFn ==
    /\ fn_seq \in SeqDomain
    /\ fn_op = "none"
    /\ fn_arg = None
    /\ fn_ret = None
    /\ MainIdle

CallFindMotif ==
    /\ fn_op = "none"
    /\ \E motif \in Motifs :
          /\ fn_op' = "find_motif"
          /\ fn_arg' = motif
          /\ fn_ret' = find_motif(fn_seq, motif)
    /\ UNCHANGED <<fn_seq, mainvars>>

CallCountKMers ==
    /\ fn_op = "none"
    /\ \E k \in KValues :
          /\ fn_op' = "count_k_mers"
          /\ fn_arg' = k
          /\ fn_ret' = count_k_mers(fn_seq, k)
    /\ UNCHANGED <<fn_seq, mainvars>>

CallFindPalindrome ==
    /\ fn_op = "none"
    /\ \E min_length \in MinLengths :
          /\ fn_op' = "find_longest_dna_palindrome"
          /\ fn_arg' = min_length
          /\ fn_ret' = find_longest_dna_palindrome(fn_seq, min_length)
    /\ UNCHANGED <<fn_seq, mainvars>>

NextFn == CallFindMotif \/ CallCountKMers \/ CallFindPalindrome

SpecFn == InitFn /\ [][NextFn]_vars

---------------------------------------------------------------------------
(* Claims about the analysis functions (SpecFn) *)

\* r back-to-back copies of motif start at 0-based offset i of sequence
IsRun(sequence, motif, i, r) ==
    \A j \in 0..(r - 1) :
        /\ i + (j + 1) * Len(motif) <= Len(sequence)
        /\ SubSeq(sequence, i + j * Len(motif) + 1, i + (j + 1) * Len(motif)) = motif

LongestRun(sequence, motif) ==
    SetMax({r * Len(motif) : r \in {q \in 0..Len(sequence) :
                \E i \in 0..Len(sequence) : IsRun(sequence, motif, i, q)}})

\* C1: find_motif(sequence, motif) returns the length in bases of the longest
\* contiguous run of back-to-back repeats of the motif (6 for "CGCGCG" and "CG").
C1_FindMotifLongestRun ==
    fn_op = "find_motif" => fn_ret = LongestRun(fn_seq, fn_arg)

RECURSIVE SumValues(_, _)
SumValues(d, i) == IF i > Len(d) THEN 0 ELSE d[i][2] + SumValues(d, i + 1)

\* C2: the table returned by count_k_mers(seq, k) has only keys of length k and
\* its values sum to len(seq) - k + 1, or to 0 when that is negative.
C2_KMerTableSum ==
    fn_op = "count_k_mers" =>
        /\ \A key \in Keys(fn_ret) : Len(key) = fn_arg
        /\ SumValues(fn_ret, 1) = Max(0, Len(fn_seq) - fn_arg + 1)

\* The length-n substring at 0-based offset i equals its own reverse complement
IsRCPalindrome(sequence, i, n) ==
    \A j \in 1..n : sequence[i + j] = complement(sequence[i + n + 1 - j])

PalindromeCandidates(sequence, min_length) ==
    {c \in (0..Len(sequence)) \X (min_length..Len(sequence)) :
        /\ c[1] + c[2] <= Len(sequence)
        /\ IsRCPalindrome(sequence, c[1], c[2])}

\* the longest candidates, and among them the one that starts first
BestCandidate(cands) ==
    CHOOSE c \in cands : \A d \in cands : d[2] < c[2] \/ (d[2] = c[2] /\ c[1] <= d[1])

\* C3: on a sequence over {A,T,G,C}, find_longest_dna_palindrome returns the
\* longest substring of length >= min_length that equals its own reverse
\* complement, the one with the smallest start offset among those of that
\* length, and the empty record exactly when there is none.
C3_LongestPalindromeFirst ==
    (fn_op = "find_longest_dna_palindrome" /\ Range(fn_seq) \subseteq Bases) =>
        LET cands == PalindromeCandidates(fn_seq, fn_arg) IN
        /\ (cands = {}) <=> (fn_ret = EmptyPalindrome)
        /\ cands # {} =>
              LET best == BestCandidate(cands) IN
              fn_ret = [palindrome_seq |-> SubSeq(fn_seq, best[1] + 1, best[1] + best[2]),
                        palindrome_length |-> best[2]]

\* Two substrings of the maximum length, at different offsets, with the script's
\* minimum length: the first one was returned.
C3_Witness ==
    /\ fn_op = "find_longest_dna_palindrome"
    /\ fn_arg = MIN_PALINDROME_LENGTH
    /\ Range(fn_seq) \subseteq Bases
    /\ LET cands == PalindromeCandidates(fn_seq, fn_arg) IN
       /\ \E c \in cands, d \in cands :
             /\ c[1] < d[1]
             /\ c[2] = d[2]
             /\ \A e \in cands : e[2] <= c[2]
             /\ fn_ret.palindrome_seq = SubSeq(fn_seq, c[1] + 1, c[1] + c[2])
             /\ fn_ret.palindrome_seq # SubSeq(fn_seq, d[1] + 1, d[1] + d[2])

---------------------------------------------------------------------------
(* Claims about the script (Spec) *)

Returned == pc \in {"aggregate", "done"}

\* The k-mer tables of a record and of the statistics, by k
LocalField(k) ==
    CASE k = 2 -> "k_mer_n2_count" [] k = 3 -> "k_mer_n3_count"
      [] k = 4 -> "k_mer_n4_count" [] k = 5 -> "k_mer_n5_count"
GlobalField(k) ==
    CASE k = 2 -> "total_k_mer_count_2" [] k = 3 -> "total_k_mer_count_3"
      [] k = 4 -> "total_k_mer_count_4" [] k = 5 -> "total_k_mer_count_5"
ScriptKs == 2..5

\* The count table of each pool sequence before its reduction (a table: TLC
\* evaluates it once)
OligoCounts == [s \in PoolSeqs |-> [k \in ScriptKs |-> oligo_counts_of(s, k)]]

\* top holds at most 5 entries of full, by count descending, entries of equal
\* count in the order in which their keys were inserted into full
IsTopTable(top, full) ==
    /\ Len(top) <= 5
    /\ \A i \in 1..Len(top) : \E j \in 1..Len(full) : full[j] = top[i]
    /\ \A i \in 1..Len(top) : \A j \in (i + 1)..Len(top) :
          /\ top[i][2] >= top[j][2]
          /\ top[i][2] = top[j][2] => IndexOf(full, top[i][1]) < IndexOf(full, top[j][1])

\* C4: every top-K table (per sequence from count_k_mers, per corpus from
\* find_top_values with limit 5) has at most 5 entries, is sorted by count
\* descending, and lists entries of equal count in the order their keys were
\* first inserted into the underlying count table.
C4_TopTablesSortedStable ==
    /\ Returned =>
          \A i \in 1..Len(results) : \A k \in ScriptKs :
              IsTopTable(results[i].k_mers[LocalField(k)], OligoCounts[data[i]][k])
    /\ pc = "done" =>
          \A k \in ScriptKs :
              IsTopTable(seq_statistics[GlobalField(k)], merged[GlobalField(k)])

\* A corpus table cut to 5 with a tie inside it, built from a record whose own
\* table was cut to 5 with a tie inside it.
C4_Witness ==
    /\ pc = "done"
    /\ \E k \in ScriptKs :
          LET top == seq_statistics[GlobalField(k)] IN
          /\ Len(merged[GlobalField(k)]) > 5
          /\ Len(top) = 5
          /\ \E i, j \in 1..5 : i < j /\ top[i][2] = top[j][2]
          /\ \E r \in 1..Len(results) :
                LET local == results[r].k_mers[LocalField(k)] IN
                /\ Len(OligoCounts[data[r]][k]) > 5
                /\ \E i, j \in 1..Len(local) : i < j /\ local[i][2] = local[j][2]

\* The contract of the Validator on one sequence
IsValidSequence(s) == Len(s) > 2 /\ \A i \in 1..Len(s) : s[i] \in {"A", "T", "G", "C"}

\* C5: validate_sequence returns true iff the sequence is longer than
\* min_length and every character is in letter_list; the result depends on
\* that one sequence only, so a duplicate of an earlier sequence passes too
\* and is analysed.
C5_ValidatePerSequence ==
    /\ \A i \in 1..Len(sequences) :
          (validate_sequence(sequences[i], NUCLEOTIDE_LIST, VALIDATE_MIN_LENGTH) = "True")
              <=> IsValidSequence(sequences[i])
    /\ validated => data = SelectSeq(sequences, IsValidSequence)
    /\ (validated /\ Returned) => Len(results) = Len(SelectSeq(sequences, IsValidSequence))

\* The same valid sequence twice in the input: both passed and both were analysed.
C5_Witness ==
    /\ validated
    /\ pc = "done"
    /\ Len(sequences) >= 2
    /\ sequences[1] = sequences[2]
    /\ IsValidSequence(sequences[1])
    /\ Len(data) = Len(sequences)
    /\ Len(seq_statistics.dna_sequences) = Len(sequences)

\* C6: whatever the interleaving and completion order of the workers,
\* process_data_parallel returns one record per input sequence, the record at
\* position i being the analysis of the sequence at position i.
C6_ResultsInInputOrder ==
    Returned =>
        /\ Len(results) = Len(data)
        /\ \A i \in 1..Len(data) : results[i] = Analysed[data[i]]

\* The second sequence was analysed before the first, and they differ.
C6_Witness ==
    /\ Returned
    /\ Len(data) >= 2
    /\ data[1] # data[2]
    /\ Len(completed) >= 2
    /\ completed[1] = 1
    /\ completed[2] = 0

SomeAnalysisRaises == \E i \in 1..Len(data) : Analysed[data[i]] = KeyError

\* C7: if the analysis of one sequence raises in a worker, process_data_parallel
\* raises to the caller and no statistics are built from the other records; the
\* fold starts only after every unit of parallel work completed successfully.
C7_WorkerFailureIsFatal ==
    /\ SomeAnalysisRaises => (~Returned /\ seq_statistics = None /\ merged = None)
    /\ (SomeAnalysisRaises /\ ~ENABLED Next) => pc = "raised"
    /\ pc = "raised" => (seq_statistics = None /\ merged = None /\ results = <<>>)
    /\ seq_statistics # None =>
          /\ pc = "done"
          /\ number_left = 0
          /\ map_success
          /\ taskqueue = <<>>
          /\ \A w \in Workers : running[w] = Idle
          /\ Len(completed) = map_number_left(Len(data), map_chunksize(Len(data), num_cores))
          /\ \A i \in 1..Len(data) : Analysed[data[i]] # KeyError

\* One sequence raised in a worker, another was analysed, and the call raised.
C7_Witness ==
    /\ pc = "raised"
    /\ num_cores >= 1
    /\ SomeAnalysisRaises
    /\ \E i \in 1..Len(data) : Analysed[data[i]] # KeyError
    /\ number_left = 0
    /\ seq_statistics = None

IndexPermutations(n) == {p \in [1..n -> 1..n] : \A i, j \in 1..n : p[i] = p[j] => i = j}

NucleotideTotals(seq_doc) ==
    <<seq_doc.total_adenine_count, seq_doc.total_thymine_count,
      seq_doc.total_guanine_count, seq_doc.total_cytosine_count>>

RecordCounts(item) ==
    <<item.adenine_count, item.thymine_count, item.guanine_count, item.cytosine_count>>

\* The sum of component b of the records' counts, taken from the last record back
RECURSIVE SumOfRecords(_, _, _)
SumOfRecords(items, n, b) ==
    IF n = 0 THEN 0 ELSE RecordCounts(items[n])[b] + SumOfRecords(items, n - 1, b)

\* C8: for each base, the corpus total equals the sum of that base's count over
\* all records, so folding the records in any permutation yields the same totals.
C8_NucleotideTotalsOrderIndependent ==
    pc = "done" =>
        /\ \A b \in 1..4 :
              NucleotideTotals(seq_statistics)[b] = SumOfRecords(results, Len(results), b)
        /\ \A p \in IndexPermutations(Len(results)) :
              NucleotideTotals(calculate_dna_sequence_statistics(
                  [i \in 1..Len(results) |-> results[p[i]]], 0, 0))
                  = NucleotideTotals(seq_statistics)

\* Two records with different counts of every base were folded.
C8_Witness ==
    /\ pc = "done"
    /\ Len(results) >= 2
    /\ \A b \in 1..4 :
          /\ RecordCounts(results[1])[b] # RecordCounts(results[2])[b]
          /\ RecordCounts(results[1])[b] > 0
          /\ RecordCounts(results[2])[b] > 0

LocalTable(item, k) == item.k_mers[LocalField(k)]

RECURSIVE SumOfLocalCounts(_, _, _, _)
SumOfLocalCounts(items, n, k, key) ==
    IF n = 0 THEN 0
    ELSE Get(LocalTable(items[n], k), key, 0) + SumOfLocalCounts(items, n - 1, k, key)

LocalKeys(items, k) == UNION {Keys(LocalTable(items[i], k)) : i \in 1..Len(items)}

\* C9: for each k, a k-mer's count in the global table before its reduction is
\* the sum over the records of its count in the record's local top-5 table (0
\* where it is not there): counts are added, never overwritten, and a k-mer in
\* no local top-5 does not appear globally.
C9_GlobalCountsAreSumsOfLocalTop5 ==
    pc = "done" =>
        \A k \in ScriptKs :
            LET global == merged[GlobalField(k)] IN
            /\ Keys(global) = LocalKeys(results, k)
            /\ \A i, j \in 1..Len(global) : global[i][1] = global[j][1] => i = j
            /\ \A key \in Keys(global) :
                  Get(global, key, 0) = SumOfLocalCounts(results, Len(results), k, key)
            /\ Keys(seq_statistics[GlobalField(k)]) \subseteq LocalKeys(results, k)

\* A k-mer in the local top-5 of two records whose counts were added, and a
\* k-mer of a sequence that is in no local top-5 and not in the global table.
C9_Witness ==
    /\ pc = "done"
    /\ Len(results) >= 2
    /\ \E k \in ScriptKs :
          /\ \E key \in Keys(LocalTable(results[1], k)) \cap Keys(LocalTable(results[2], k)) :
                Get(merged[GlobalField(k)], key, 0) =
                    Get(LocalTable(results[1], k), key, 0)
                    + Get(LocalTable(results[2], k), key, 0)
          /\ \E i \in 1..Len(data) :
                \E key \in Keys(OligoCounts[data[i]][k]) :
                    /\ key \notin LocalKeys(results, k)
                    /\ key \notin Keys(merged[GlobalField(k)])

DroppedCount == Len(sequences) - Len(SelectSeq(sequences, IsValidSequence))

\* C11 as stated: for every input object the reported invalid_sequences_count
\* is the number of sequences of the input list the Validator dropped (those
\* entering minus those passing), and so is never negative.
C11_InvalidCountIsDropped ==
    (pc = "done" /\ validated) =>
        /\ seq_statistics.invalid_sequences_count = DroppedCount
        /\ seq_statistics.invalid_sequences_count >= 0

\* C11 as amended: invalid_sequences_count is the declared num_sequences minus
\* the number of sequences that pass validation; it is the number dropped, and
\* not negative, when num_sequences is the length of the input list.
C11_InvalidCountFromDeclaredTotal ==
    (pc = "done" /\ validated) =>
        /\ seq_statistics.total_sequences_count = num_sequences
        /\ seq_statistics.invalid_sequences_count =
              num_sequences - Len(SelectSeq(sequences, IsValidSequence))
        /\ num_sequences = Len(sequences) =>
              /\ seq_statistics.invalid_sequences_count = DroppedCount
              /\ seq_statistics.invalid_sequences_count >= 0

\* A list whose declared count is its length, with one sequence dropped and
\* one kept, was reported.
C11_Witness ==
    /\ pc = "done"
    /\ validated
    /\ num_sequences = Len(sequences)
    /\ Len(data) >= 1
    /\ DroppedCount >= 1
    /\ seq_statistics.invalid_sequences_count = DroppedCount

\* C12: for every detected core count, 1 included, the pool size is half the
\* detected cores but never less than 1, so the pool is always created and the
\* batch is processed: a run stops only when the analysis of a sequence fails.
C12_PoolSizeAtLeastOne ==
    /\ num_cores >= 1
    /\ pc = "raised" => SomeAnalysisRaises

\* C13: no two records of the dna_sequences list returned for one run have the
\* same id.
C13_RecordIdsUnique ==
    pc = "done" =>
        \A i, j \in 1..Len(seq_statistics.dna_sequences) :
            i # j => seq_statistics.dna_sequences[i].id # seq_statistics.dna_sequences[j].id

=============================================================================
